---- MODULE Spec2Model ----
(***************************************************************************)
(* A model of scripts/makecrates.py: the argument check, discovery of the *)
(* YAML files of a directory, grouping by family, the confirmation prompt, *)
(* rendering of Cargo.toml / README.md / src/lib.rs and their persistence. *)
(*                                                                         *)
(* A Python str is a sequence of one-character strings; the literal text   *)
(* of a template is kept as whole chunks (one element per literal piece),  *)
(* the interpolated values are spliced in character by character.          *)
(***************************************************************************)
EXTENDS Integers, Sequences, FiniteSets, TLC

VARIABLES
  argc,        \* len(sys.argv)
  dirEntries,  \* the names of the entries of the directory sys.argv[1]
  pc,          \* the position of the script
  exit,        \* how the process ended ("none" while it runs)
  paths,       \* the list glob.glob returned
  pi,          \* the index in paths of the next path of the discovery loop
  devices,     \* the dict devices, as the list of its items in insertion order
  stdout,      \* what was printed, one element per print()/input() call
  stdinRead,   \* the number of lines input() has returned
  fi,          \* the index in devices of the family of the rendering loop
  crate, cargo_toml, readme, lib_rs,  \* the locals of the rendering loop
  fsDirs,      \* the directories created below the working directory
  fsFiles,     \* the files written below the working directory, path -> content
  oplog        \* every filesystem operation attempted below the working directory

vars == <<argc, dirEntries, pc, exit, paths, pi, devices, stdout, stdinRead, fi,
          crate, cargo_toml, readme, lib_rs, fsDirs, fsFiles, oplog>>

\* ------------------------------------------------------------------ bounds
\* largest len(sys.argv) tried
MaxArgc == 3
\* largest number of entries in the input directory
MaxFiles == 3

\* ------------------------------------------------------- characters, str
Digits == <<"0", "1", "2", "3", "4", "5", "6", "7", "8", "9">>
UpperLetters ==
  <<"A", "B", "C", "D", "E", "F", "G", "H", "I", "J", "K", "L", "M",
    "N", "O", "P", "Q", "R", "S", "T", "U", "V", "W", "X", "Y", "Z">>
LowerLetters ==
  <<"a", "b", "c", "d", "e", "f", "g", "h", "i", "j", "k", "l", "m",
    "n", "o", "p", "q", "r", "s", "t", "u", "v", "w", "x", "y", "z">>

Range(s) == {s[i] : i \in DOMAIN s}

IndexOf(c, s) == CHOOSE i \in DOMAIN s : s[i] = c

\* the characters of the model: ASCII letters, digits and four punctuation marks
Chars ==
  Range(Digits) \cup Range(UpperLetters) \cup Range(LowerLetters)
  \cup {"-", ".", "/", "_"}

\* the code point of each character (ASCII)
OrdTable ==
  [c \in Chars |->
     CASE c \in Range(Digits) -> 47 + IndexOf(c, Digits)
       [] c \in Range(UpperLetters) -> 64 + IndexOf(c, UpperLetters)
       [] c \in Range(LowerLetters) -> 96 + IndexOf(c, LowerLetters)
       [] c = "-" -> 45
       [] c = "." -> 46
       [] c = "/" -> 47
       [] c = "_" -> 95]

\* ord(c), the order Python compares str by
Ord(c) == OrdTable[c]

LowerTable ==
  [c \in Chars |->
     IF c \in Range(UpperLetters) THEN LowerLetters[IndexOf(c, UpperLetters)] ELSE c]

UpperTable ==
  [c \in Chars |->
     IF c \in Range(LowerLetters) THEN UpperLetters[IndexOf(c, LowerLetters)] ELSE c]

\* str.lower() and str.upper() on one character
LowerChar(c) == LowerTable[c]

UpperChar(c) == UpperTable[c]

Lower(s) == [i \in DOMAIN s |-> LowerChar(s[i])]

Upper(s) == [i \in DOMAIN s |-> UpperChar(s[i])]

\* s.replace("X", "x")
ReplaceXx(s) == [i \in DOMAIN s |-> IF s[i] = "X" THEN "x" ELSE s[i]]

Min(a, b) == IF a < b THEN a ELSE b

\* a < b on str: the first differing code point decides, a proper prefix is smaller
StrLess(a, b) ==
  \E i \in 1..(Min(Len(a), Len(b)) + 1) :
    /\ \A j \in 1..(i - 1) : a[j] = b[j]
    /\ \/ i > Len(a) /\ i <= Len(b)
       \/ i <= Len(a) /\ i <= Len(b) /\ Ord(a[i]) < Ord(b[i])

RECURSIVE Insert(_, _)
Insert(x, s) ==
  IF s = <<>> THEN <<x>>
  ELSE IF StrLess(x, Head(s)) THEN <<x>> \o s
  ELSE <<Head(s)>> \o Insert(x, Tail(s))

\* sorted(list of str)
RECURSIVE Sorted(_)
Sorted(s) ==
  IF s = <<>> THEN <<>>
  ELSE Insert(s[Len(s)], Sorted(SubSeq(s, 1, Len(s) - 1)))

\* sep.join(parts)
RECURSIVE Join(_, _)
Join(sep, parts) ==
  IF parts = <<>> THEN <<>>
  ELSE IF Len(parts) = 1 THEN parts[1]
  ELSE parts[1] \o sep \o Join(sep, Tail(parts))

EndsWith(s, suffix) ==
  /\ Len(s) >= Len(suffix)
  /\ SubSeq(s, Len(s) - Len(suffix) + 1, Len(s)) = suffix

\* ---------------------------------------------------------- the templates
\* the character U+0060 of README_TPL, which a TLA+ string literal cannot hold
Backtick == "<U+0060>"

VERSION == <<"0.1.1">>

CARGO_TOML_TPL(family, crate_, version, features) ==
  <<"[package]\nname = \"">> \o crate_
  \o <<"\"\nversion = \"">> \o version
  \o <<"\"\nauthors = [\"Adam Greig <adam@adamgreig.com>\"]\ndescription = \"Device support crates for ">>
  \o family
  \o <<" devices\"\nrepository = \"https://github.com/adamgreig/stm32-rs\"\nreadme = \"README.md\"\nkeywords = [\"stm32\", \"svd2rust\", \"no_std\", \"embedded\"]\ncategories = [\"embedded\", \"no-std\"]\nlicense = \"MIT/Apache-2.0\"\n\n[dependencies]\nbare-metal = \"0.1.1\"\nvcell = \"0.1.0\"\ncortex-m = \"0.4.3\"\ncortex-m-rt = \"0.4.0\"\n\n[features]\ndefault = []\nrt = []\n">>
  \o features \o <<"\n">>

SRC_LIB_RS_TPL(family, mods) ==
  <<"//! Peripheral access API for ">> \o family
  \o <<" microcontrollers\n//! (generated using [svd2rust])\n//! [svd2rust]: https://github.com/japaric/svd2rust\n//!\n//! You can find an overview of the API here:\n//! https://docs.rs/svd2rust/0.8.1/svd2rust/#peripheral-api\n//!\n//! For more details see the README here:\n//! https://github.com/adamgreig/stm32-rs\n\n#![allow(non_camel_case_types)]\n#![allow(private_no_mangle_statics)]\n#![feature(const_fn)]\n#![feature(try_from)]\n#![no_std]\n\n#![cfg_attr(feature = \"rt\", feature(global_asm))]\n#![cfg_attr(feature = \"rt\", feature(use_extern_macros))]\n#![cfg_attr(feature = \"rt\", feature(used))]\n\nextern crate vcell;\nextern crate bare_metal;\nextern crate cortex_m;\n\n#[cfg(feature = \"rt\")]\nextern crate cortex_m_rt;\n#[cfg(feature = \"rt\")]\npub use cortex_m_rt::{default_handler, exception};\n\n">>
  \o mods \o <<"\n">>

README_TPL(family, crate_, version, device, devs) ==
  <<"# ">> \o crate_
  \o <<"\nThis crate provides an autogenerated API for access to ">> \o family
  \o <<" peripherals.\nThe API is generated using [svd2rust] with patched svd files containing\nextensive type-safe support. For more information please see the [main repo].\n\n[svd2rust]: https://github.com/japaric/svd2rust\n[main repo]: https://github.com/adamgreig/stm32-rs\n\n## Usage\nEach device supported by this crate is behind a feature gate so that you only\ncompile the device(s) you want. To use, in your Cargo.toml:\n\n", Backtick, Backtick, Backtick, "toml\n[dependencies.">>
  \o crate_
  \o <<"]\nversion = \"">> \o version
  \o <<"\"\nfeatures = [\"">> \o device
  \o <<"\", \"rt\"]\n", Backtick, Backtick, Backtick, "\n\nThe ", Backtick, "rt", Backtick, " feature is optional and brings in support for ", Backtick, "cortex-m-rt", Backtick, ".\n\nFor details on the autogenerated API, please see:\nhttps://docs.rs/svd2rust/0.8.1/svd2rust/#peripheral-api\n\n## Supported Devices\n\n">>
  \o devs \o <<"\n">>

\* --------------------------------------------------- make_features, make_mods
FeatureLine(d) == d \o <<" = []">>

make_features(devs) ==
  Join(<<"\n">>, [i \in DOMAIN devs |-> FeatureLine(Sorted(devs)[i])])

ModDecl(d) == <<"#[cfg(feature = \"">> \o d \o <<"\")]\npub mod ">> \o d \o <<";\n">>

make_mods(devs) ==
  Join(<<"\n">>, [i \in DOMAIN devs |-> ModDecl(Sorted(devs)[i])])

\* a variant of Bullet that leaves the upper-case X
BulletUpperOnly(d) == <<"* ">> \o Upper(d)

\* "* " + d.upper().replace("X", "x")
Bullet(d) == <<"* ">> \o ReplaceXx(Upper(d))

\* "\n".join("* " + d.upper().replace("X", "x") for d in devices[family])
DeviceBullets(devs) == Join(<<"\n">>, [i \in DOMAIN devs |-> Bullet(devs[i])])

\* ------------------------------------------------------------- discovery
YamlExt == <<".", "y", "a", "m", "l">>

\* fnmatch of a directory entry against "*.yaml"; glob skips hidden entries
GlobMatch(name) == EndsWith(name, YamlExt) /\ name[1] # "."

\* the names glob.glob(os.path.join(sys.argv[1], "*.yaml")) yields; basename()
\* of each path is the entry's name again
Glob(entries) == {n \in entries : GlobMatch(n)}

\* the slice bound of yamlfile[:7]
FamilyLen == 7

\* a variant of FamilyKey that folds the case of the key
FamilyKeyLower(yamlfile) == Lower(SubSeq(yamlfile, 1, Min(FamilyLen, Len(yamlfile))))

\* yamlfile[:7]
FamilyKey(yamlfile) == SubSeq(yamlfile, 1, Min(FamilyLen, Len(yamlfile)))

\* os.path.splitext(p)[0] of a name without separators: cut at the last dot,
\* unless only dots precede it
SplitExtRoot(p) ==
  LET dots == {i \in DOMAIN p : p[i] = "."}
      d == IF dots = {} THEN 0 ELSE CHOOSE i \in dots : \A j \in dots : j <= i
  IN IF d > 0 /\ (\E j \in 1..(d - 1) : p[j] # ".") THEN SubSeq(p, 1, d - 1) ELSE p

\* os.path.splitext(yamlfile)[0].lower()
DeviceKey(yamlfile) == Lower(SplitExtRoot(yamlfile))

\* the dict devices: a list of items [family, devs] in insertion order
HasKey(d, k) == \E i \in DOMAIN d : d[i].family = k

KeyIndex(d, k) == CHOOSE i \in DOMAIN d : d[i].family = k

Get(d, k) == d[KeyIndex(d, k)].devs

Keys(d) == [i \in DOMAIN d |-> d[i].family]

\* a variant of Group that appends only to a group that existed before
GroupElseAppend(d, family, device) ==
  IF HasKey(d, family)
  THEN [d EXCEPT ![KeyIndex(d, family)].devs = Append(@, device)]
  ELSE Append(d, [family |-> family, devs |-> <<>>])

\* if family not in devices: devices[family] = []
\* devices[family].append(device)
Group(d, family, device) ==
  LET d1 == IF HasKey(d, family) THEN d
            ELSE Append(d, [family |-> family, devs |-> <<>>])
  IN [d1 EXCEPT ![KeyIndex(d1, family)].devs = Append(@, device)]

\* os.path.join(sys.argv[1], "*.yaml")
GlobPattern == <<"sys.argv[1]", "/", "*", ".", "y", "a", "m", "l">>

\* all orders in which a set can be enumerated
Perms(S) ==
  {p \in [1..Cardinality(S) -> S] : \A i, j \in DOMAIN p : i # j => p[i] # p[j]}

\* ------------------------------------------------------------ the prompt
\* a variant of DirsLine that announces the family keys as they are
DirsLineCasePreserved(d) ==
  Join(<<", ">>, [i \in DOMAIN d |-> d[i].family \o <<"/">>])

\* ", ".join(x.lower()+"/" for x in devices)
DirsLine(d) == Join(<<", ">>, [i \in DOMAIN d |-> Lower(d[i].family) \o <<"/">>])

Argv0 == "scripts/makecrates.py"

UsageLine == <<"Usage: ", Argv0, " <yaml directory>">>

\* ------------------------------------------------------------ persistence
\* os.path.join(a, b)
PathJoin(a, b) == a \o <<"/">> \o b

CargoPath(c) == PathJoin(c, <<"Cargo.toml">>)

ReadmePath(c) == PathJoin(c, <<"README.md">>)

SrcDir(c) == PathJoin(c, <<"src">>)

LibPath(c) == PathJoin(SrcDir(c), <<"lib.rs">>)

\* the directories used as input: every subset of these entries of at most
\* MaxFiles names
Stm32 == <<"s", "t", "m", "3", "2">>

EntryNames ==
  { Stm32 \o <<"f", "4", "0", "1">> \o YamlExt,
    Stm32 \o <<"f", "4", "x", "1">> \o YamlExt,
    Stm32 \o <<"f", "4", "X", "1">> \o YamlExt,
    Stm32 \o <<"f", "4", "z", "1">> \o YamlExt,
    <<"S", "T", "M", "3", "2", "F", "4", "0", "1">> \o YamlExt,
    Stm32 \o <<"l", "0", "x", "1">> \o YamlExt,
    <<"f", "4">> \o YamlExt,
    Stm32 \o <<"f", "4", ".", "y", "m", "l">> }

Init ==
  /\ argc \in 1..MaxArgc
  /\ dirEntries \in {S \in SUBSET EntryNames : Cardinality(S) <= MaxFiles}
  /\ pc = "start"
  /\ exit = "none"
  /\ paths = <<>>
  /\ pi = 1
  /\ devices = <<>>
  /\ stdout = <<>>
  /\ stdinRead = 0
  /\ fi = 1
  /\ crate = <<>>
  /\ cargo_toml = <<>>
  /\ readme = <<>>
  /\ lib_rs = <<>>
  /\ fsDirs = {}
  /\ fsFiles = <<>>
  /\ oplog = <<>>

\* if len(sys.argv) != 2: print usage, sys.exit(1)
UsageError ==
  /\ pc = "start"
  /\ argc # 2
  /\ stdout' = Append(stdout, UsageLine)
  /\ exit' = "1"
  /\ pc' = "exited"
  /\ UNCHANGED <<stdinRead, argc, dirEntries, paths, pi, devices, fi, crate, cargo_toml,
                 readme, lib_rs, fsDirs, fsFiles, oplog>>

\* a variant of CallMain that only rejects a missing argument
CallMainAnyArgs ==
  /\ pc = "start"
  /\ argc >= 2
  /\ \E p \in Perms(Glob(dirEntries)) : paths' = p
  /\ pi' = 1
  /\ devices' = <<>>
  /\ oplog' = Append(oplog, [op |-> "glob", path |-> GlobPattern, family |-> 0,
                              ok |-> TRUE])
  /\ pc' = "discover"
  /\ UNCHANGED <<stdinRead, argc, dirEntries, exit, stdout, fi, crate, cargo_toml,
                 readme, lib_rs, fsDirs, fsFiles>>

\* else: main(), up to the list glob.glob returns, in an order of the OS's choosing
CallMain ==
  /\ pc = "start"
  /\ argc = 2
  /\ \E p \in Perms(Glob(dirEntries)) : paths' = p
  /\ pi' = 1
  /\ devices' = <<>>
  /\ oplog' = Append(oplog, [op |-> "glob", path |-> GlobPattern, family |-> 0,
                              ok |-> TRUE])
  /\ pc' = "discover"
  /\ UNCHANGED <<stdinRead, argc, dirEntries, exit, stdout, fi, crate, cargo_toml,
                 readme, lib_rs, fsDirs, fsFiles>>

\* one iteration of the loop over the paths
Discover ==
  /\ pc = "discover"
  /\ pi <= Len(paths)
  /\ LET yamlfile == paths[pi]
         family == FamilyKey(yamlfile)
         device == DeviceKey(yamlfile)
     IN devices' = Group(devices, family, device)
  /\ pi' = pi + 1
  /\ UNCHANGED <<stdinRead, argc, dirEntries, pc, exit, paths, stdout, fi, crate,
                 cargo_toml, readme, lib_rs, fsDirs, fsFiles, oplog>>

\* a variant of Prompt that does not wait for the operator
PromptNoInput ==
  /\ pc = "discover"
  /\ pi > Len(paths)
  /\ stdout' = stdout \o << <<"Going to create/update the following directories:">>,
                            DirsLine(devices),
                            <<"Enter to continue, ctrl-C to cancel">> >>
  /\ pc' = "loop"
  /\ UNCHANGED <<stdinRead, argc, dirEntries, exit, paths, pi, devices, fi, crate,
                 cargo_toml, readme, lib_rs, fsDirs, fsFiles, oplog>>

\* the two print() calls and the prompt input() writes before it blocks
Prompt ==
  /\ pc = "discover"
  /\ pi > Len(paths)
  /\ stdout' = stdout \o << <<"Going to create/update the following directories:">>,
                            DirsLine(devices),
                            <<"Enter to continue, ctrl-C to cancel">> >>
  /\ pc' = "input"
  /\ UNCHANGED <<stdinRead, argc, dirEntries, exit, paths, pi, devices, fi, crate,
                 cargo_toml, readme, lib_rs, fsDirs, fsFiles, oplog>>

\* input() returns a line
InputReturns ==
  /\ pc = "input"
  /\ stdinRead' = stdinRead + 1
  /\ fi' = 1
  /\ pc' = "loop"
  /\ UNCHANGED <<argc, dirEntries, exit, paths, pi, devices, stdout, crate,
                 cargo_toml, readme, lib_rs, fsDirs, fsFiles, oplog>>

\* input() raises KeyboardInterrupt, which nothing catches
InputInterrupted ==
  /\ pc = "input"
  /\ exit' = "KeyboardInterrupt"
  /\ pc' = "exited"
  /\ UNCHANGED <<stdinRead, argc, dirEntries, paths, pi, devices, stdout, fi, crate,
                 cargo_toml, readme, lib_rs, fsDirs, fsFiles, oplog>>

\* ------------------------------------------------------------- rendering
\* a variant of SortDevices that keeps the order of discovery
SortDevicesNone(devs) == devs

\* devices[family] = sorted(devices[family])
SortDevices(devs) == Sorted(devs)

\* cargo_toml of one family, from its key and its devices as discovered
RenderCargo(family, devs) ==
  CARGO_TOML_TPL(Upper(family), Lower(family), VERSION,
                 make_features(SortDevices(devs)))

\* readme of one family
RenderReadme(family, devs) ==
  README_TPL(Upper(family), Lower(family), VERSION, SortDevices(devs)[1],
             DeviceBullets(SortDevices(devs)))

\* lib_rs of one family
RenderLib(family, devs) ==
  SRC_LIB_RS_TPL(Upper(family), make_mods(SortDevices(devs)))

\* input() raises EOFError on a closed standard input, which nothing catches
InputEOF ==
  /\ pc = "input"
  /\ exit' = "EOFError"
  /\ pc' = "exited"
  /\ UNCHANGED <<stdinRead, argc, dirEntries, paths, pi, devices, stdout, fi, crate,
                 cargo_toml, readme, lib_rs, fsDirs, fsFiles, oplog>>

\* the body of "for family in devices" up to the three rendered texts
Render ==
  /\ pc = "loop"
  /\ fi <= Len(devices)
  /\ LET family == devices[fi].family
         devs == devices[fi].devs
     IN /\ devices' = [devices EXCEPT ![fi].devs = SortDevices(devs)]
        /\ crate' = Lower(family)
        /\ cargo_toml' = RenderCargo(family, devs)
        /\ readme' = RenderReadme(family, devs)
        /\ lib_rs' = RenderLib(family, devs)
  /\ pc' = "makedirs"
  /\ UNCHANGED <<stdinRead, argc, dirEntries, exit, paths, pi, stdout, fi, fsDirs,
                 fsFiles, oplog>>

\* the loop is over: main() returns and the process exits with status 0
Finish ==
  /\ pc = "loop"
  /\ fi > Len(devices)
  /\ exit' = "0"
  /\ pc' = "exited"
  /\ UNCHANGED <<stdinRead, argc, dirEntries, paths, pi, devices, stdout, fi, crate,
                 cargo_toml, readme, lib_rs, fsDirs, fsFiles, oplog>>

Op(kind, path, ok) == [op |-> kind, path |-> path, family |-> fi, ok |-> ok]

\* os.makedirs(os.path.join(crate, "src"), exist_ok=True)
MakeDirs ==
  /\ pc = "makedirs"
  /\ fsDirs' = fsDirs \cup {crate, SrcDir(crate)}
  /\ oplog' = Append(oplog, Op("makedirs", SrcDir(crate), TRUE))
  /\ pc' = "cargo"
  /\ UNCHANGED <<stdinRead, argc, dirEntries, exit, paths, pi, devices, stdout, fi, crate,
                 cargo_toml, readme, lib_rs, fsFiles>>

\* os.makedirs raises OSError, before or after it made the crate directory
MakeDirsFails ==
  /\ pc = "makedirs"
  /\ \E made \in {{}, {crate}} : fsDirs' = fsDirs \cup made
  /\ oplog' = Append(oplog, Op("makedirs", SrcDir(crate), FALSE))
  /\ exit' = "OSError"
  /\ pc' = "exited"
  /\ UNCHANGED <<stdinRead, argc, dirEntries, paths, pi, devices, stdout, fi, crate,
                 cargo_toml, readme, lib_rs, fsFiles>>

\* with open(path, "w") as f: f.write(text)
Write(path, text) ==
  /\ fsFiles' = (path :> text) @@ fsFiles
  /\ oplog' = Append(oplog, Op("write", path, TRUE))
  /\ UNCHANGED <<stdinRead, argc, dirEntries, exit, paths, pi, devices, stdout, crate,
                 cargo_toml, readme, lib_rs, fsDirs>>

\* open() raises OSError and leaves the file alone, or the write raises it
\* after open() truncated the file, with only a part of the text on disk
WriteFails(path, text) ==
  /\ \/ fsFiles' = fsFiles
     \/ \E k \in 0..(Len(text) - 1) :
          fsFiles' = (path :> SubSeq(text, 1, k)) @@ fsFiles
  /\ oplog' = Append(oplog, Op("write", path, FALSE))
  /\ exit' = "OSError"
  /\ pc' = "exited"
  /\ UNCHANGED <<stdinRead, argc, dirEntries, paths, pi, devices, stdout, fi, crate,
                 cargo_toml, readme, lib_rs, fsDirs>>

WriteCargo ==
  /\ pc = "cargo"
  /\ Write(CargoPath(crate), cargo_toml)
  /\ pc' = "readme"
  /\ UNCHANGED fi

WriteCargoFails == pc = "cargo" /\ WriteFails(CargoPath(crate), cargo_toml)

WriteReadme ==
  /\ pc = "readme"
  /\ Write(ReadmePath(crate), readme)
  /\ pc' = "lib"
  /\ UNCHANGED fi

WriteReadmeFails == pc = "readme" /\ WriteFails(ReadmePath(crate), readme)

\* the last write of the loop body; the loop goes on to the next family
WriteLib ==
  /\ pc = "lib"
  /\ Write(LibPath(crate), lib_rs)
  /\ fi' = fi + 1
  /\ pc' = "loop"

WriteLibFails == pc = "lib" /\ WriteFails(LibPath(crate), lib_rs)

Next ==
  \/ UsageError
  \/ CallMain
  \/ Discover
  \/ Prompt
  \/ InputReturns
  \/ InputInterrupted
  \/ InputEOF
  \/ Render
  \/ MakeDirs
  \/ MakeDirsFails
  \/ WriteCargo
  \/ WriteCargoFails
  \/ WriteReadme
  \/ WriteReadmeFails
  \/ WriteLib
  \/ WriteLibFails
  \/ Finish

Spec == Init /\ [][Next]_vars

\* ================================================================ claims
\* the names of the directory that "*.yaml" selects
Matched == {n \in dirEntries : EndsWith(n, <<".", "y", "a", "m", "l">>) /\ n[1] # "."}

\* the names the discovery loop has handled so far
Processed == {paths[i] : i \in 1..(pi - 1)}

DiscoveryFinished ==
  /\ pc \notin {"start", "discover"}
  /\ Len(paths) = Cardinality(Matched)
  /\ Processed = Matched

\* a directory was created or a file was written, or one of the two was tried
FsTouched ==
  \/ fsDirs # {}
  \/ DOMAIN fsFiles # {}
  \/ \E i \in DOMAIN oplog : oplog[i].op \in {"makedirs", "write"}

\* C1: nothing is created or written before discovery has finished, the prompt
\* was printed and input() has returned; a run whose input() was interrupted
\* has ended and has created and written nothing.
C1_NoWriteBeforeConfirmation ==
  /\ FsTouched =>
       /\ DiscoveryFinished
       /\ Len(stdout) = 3
       /\ stdinRead = 1
       /\ exit \notin {"KeyboardInterrupt", "EOFError"}
  /\ exit \in {"KeyboardInterrupt", "EOFError"} => pc = "exited" /\ ~FsTouched

C1_Witness == exit = "KeyboardInterrupt" /\ Len(devices) >= 2

\* C2: with len(sys.argv) # 2 the script prints the usage line, exits with
\* status 1 and does nothing else: no scan, no prompt, no read, no write.
C2_UsageError ==
  argc # 2 =>
    /\ pc \in {"start", "exited"}
    /\ oplog = <<>>
    /\ paths = <<>>
    /\ devices = <<>>
    /\ ~FsTouched
    /\ stdinRead = 0
    /\ pc = "start" => stdout = <<>> /\ exit = "none"
    /\ pc = "exited" =>
         /\ stdout = << <<"Usage: ", Argv0, " <yaml directory>">> >>
         /\ exit = "1"

C2_Witness == argc > 2 /\ pc = "exited" /\ Matched # {}

\* k is the first 7 characters of the name n (all of n when it is shorter)
FirstSeven(k, n) ==
  /\ Len(k) = IF Len(n) < 7 THEN Len(n) ELSE 7
  /\ \A i \in 1..Len(k) : k[i] = n[i]

\* v is the name n without its ".yaml", lower-cased
StemLower(v, n) ==
  /\ Len(v) = Len(n) - 5
  /\ \A i \in 1..Len(v) : v[i] = LowerChar(n[i])

Count(v, s) == Cardinality({i \in DOMAIN s : s[i] = v})

\* C3: the mapping holds, for every name handled, exactly one device key (the
\* stem, lower-cased) in exactly one group, the one of the name's first 7
\* characters as they are; group by group the multiset of device keys is a
\* function of the set of names alone, whatever order glob listed them in.
C3_Grouping ==
  /\ \A i, j \in DOMAIN devices : i # j => devices[i].family # devices[j].family
  /\ \A n \in Processed : \E i \in DOMAIN devices : FirstSeven(devices[i].family, n)
  /\ \A i \in DOMAIN devices :
       LET fam == devices[i].family
           devs == devices[i].devs
           members == {n \in Processed : FirstSeven(fam, n)}
       IN /\ members # {}
          /\ Len(devs) = Cardinality(members)
          /\ \A v \in Range(devs) :
               Count(v, devs) = Cardinality({n \in members : StemLower(v, n)})
  /\ argc = 2 /\ pc \notin {"start", "discover"} => Processed = Matched

C3_Witness ==
  /\ pc = "input"
  /\ \E i \in DOMAIN devices : Len(devices[i].devs) >= 2
  /\ \E i \in DOMAIN devices :
       \E c \in Range(devices[i].family) : c \in Range(UpperLetters)

\* ------------------------------------------------ reading the rendered texts
\* the script is between the rendering of a family and its last write
InLoopBody == pc \in {"makedirs", "cargo", "readme", "lib"}

\* the characters a device key is made of
NameChars ==
  Range(Digits) \cup Range(UpperLetters) \cup Range(LowerLetters) \cup {".", "-", "_"}

\* text.split(sep), the empty text giving no part
RECURSIVE SplitOn(_, _)
SplitOn(sep, text) ==
  IF text = <<>> THEN <<>>
  ELSE LET at == {i \in DOMAIN text : text[i] = sep}
       IN IF at = {} THEN <<text>>
          ELSE LET i == CHOOSE k \in at : \A l \in at : k <= l
               IN <<SubSeq(text, 1, i - 1)>>
                  \o SplitOn(sep, SubSeq(text, i + 1, Len(text)))

\* the lines at the end of a rendered text that are made of name characters
\* and the given tokens only, without the newline that ends the text
TrailingLines(text, tokens) ==
  LET other == {i \in DOMAIN text : text[i] \notin NameChars \cup tokens \cup {"\n"}}
      last == CHOOSE k \in other : \A l \in other : l <= k
  IN SplitOn("\n", SubSeq(text, last + 1, Len(text) - 1))

\* the lines of the [features] table of a manifest after "rt = []"
FeatureLines(manifest) == TrailingLines(manifest, {" = []"})

\* the bullets of the "Supported Devices" section of a readme
BulletLines(text) == TrailingLines(text, {"* "})

NoDuplicates(s) == \A i, j \in DOMAIN s : i # j => s[i] # s[j]

\* C4: the feature lines of the manifest name exactly the device keys of the
\* family, and no name is on two lines.
C4_FeaturesExactlyOnce ==
  InLoopBody =>
    LET lines == FeatureLines(cargo_toml)
        names == [i \in DOMAIN lines |-> SubSeq(lines[i], 1, Len(lines[i]) - 1)]
    IN /\ \A i \in DOMAIN lines : lines[i][Len(lines[i])] = " = []"
       /\ Range(names) = Range(devices[fi].devs)
       /\ NoDuplicates(names)

\* C5: two families never touch the same path below the working directory.
C5_DisjointDirectories ==
  \A i, j \in DOMAIN oplog :
    /\ oplog[i].op \in {"makedirs", "write"}
    /\ oplog[j].op \in {"makedirs", "write"}
    /\ oplog[i].family # oplog[j].family
    => oplog[i].path # oplog[j].path

\* the device key d in upper case, with x in place of X
UpperWithSmallX(d) ==
  [i \in DOMAIN d |-> IF UpperChar(d[i]) = "X" THEN "x" ELSE UpperChar(d[i])]

IsAscending(s) == \A i, j \in DOMAIN s : i < j => ~StrLess(s[j], s[i])

\* the i-th bullet of the readme is the i-th entry of the family's device list
OneBulletPerDevice ==
  LET lines == BulletLines(readme)
      devs == devices[fi].devs
  IN /\ Len(lines) = Len(devs)
     /\ \A i \in DOMAIN lines : lines[i] = <<"* ">> \o UpperWithSmallX(devs[i])

\* the bullets of the readme, without their "* ", are in ascending order
BulletsAscending ==
  LET lines == BulletLines(readme)
  IN IsAscending([i \in DOMAIN lines |-> Tail(lines[i])])

\* C6 as stated: one bullet per device, the name in upper case with x for X,
\* and the bullets as rendered are in lexicographic order.
C6_BulletsSortedAsRendered == InLoopBody => OneBulletPerDevice /\ BulletsAscending

\* C6 as amended: one bullet per entry of the device list, the name in upper
\* case with x for X, the bullets in the lexicographic order of the device keys.
C6_BulletsInDeviceKeyOrder ==
  InLoopBody => OneBulletPerDevice /\ IsAscending(devices[fi].devs)

C6_Witness == InLoopBody /\ OneBulletPerDevice /\ ~BulletsAscending

\* every order of the elements of a list
SeqPerms(s) == {[i \in DOMAIN s |-> s[q[i]]] : q \in Perms(DOMAIN s)}

\* C7: the three texts rendered for a family are those of every permutation of
\* its device list, and sorting the sorted list gives the same list.
C7_RenderPermutationInvariant ==
  InLoopBody =>
    LET fam == devices[fi].family
        devs == devices[fi].devs
    IN /\ \A p \in SeqPerms(devs) :
            /\ cargo_toml = RenderCargo(fam, p)
            /\ readme = RenderReadme(fam, p)
            /\ lib_rs = RenderLib(fam, p)
            /\ SortDevices(SortDevices(p)) = SortDevices(p)
       /\ SortDevices(devs) = devs

\* a family is rendered whose devices were discovered out of order
C7_Witness ==
  /\ InLoopBody
  /\ \E i, j \in DOMAIN paths :
       /\ i < j
       /\ FamilyKey(paths[i]) = devices[fi].family
       /\ FamilyKey(paths[j]) = devices[fi].family
       /\ StrLess(DeviceKey(paths[j]), DeviceKey(paths[i]))

\* ------------------------------------------------------------ persistence
\* the operations attempted below the working directory, in order
CwdOps == SelectSeq(oplog, LAMBDA o : o.op # "glob")

\* the directory of the family of index f
CrateOf(f) == [i \in DOMAIN devices[f].family |-> LowerChar(devices[f].family[i])]

\* the k-th operation of a run: four per family, the families in insertion order
StepKind(k) == IF (k - 1) % 4 = 0 THEN "makedirs" ELSE "write"

StepPath(k) ==
  LET c == CrateOf(((k - 1) \div 4) + 1)
  IN CASE (k - 1) % 4 = 0 -> c \o <<"/", "src">>
       [] (k - 1) % 4 = 1 -> c \o <<"/", "Cargo.toml">>
       [] (k - 1) % 4 = 2 -> c \o <<"/", "README.md">>
       [] (k - 1) % 4 = 3 -> c \o <<"/", "src", "/", "lib.rs">>

\* the text the k-th operation writes
StepText(k) ==
  LET f == ((k - 1) \div 4) + 1
      fam == devices[f].family
      devs == devices[f].devs
  IN CASE (k - 1) % 4 = 1 -> RenderCargo(fam, devs)
       [] (k - 1) % 4 = 2 -> RenderReadme(fam, devs)
       [] (k - 1) % 4 = 3 -> RenderLib(fam, devs)

\* the operations are attempted in the order of the families and, within a
\* family, makedirs, manifest, readme, source module, each step once; a failed
\* one is the last and ends the run
AttemptedInOrderOnce ==
  LET ops == CwdOps
  IN /\ NoDuplicates(oplog)
     /\ Len(ops) <= 4 * Len(devices)
     /\ \A k \in DOMAIN ops :
          /\ ops[k].family = ((k - 1) \div 4) + 1
          /\ ops[k].op = StepKind(k)
          /\ ops[k].path = StepPath(k)
          /\ ~ops[k].ok => k = Len(ops) /\ pc = "exited" /\ exit = "OSError"
     /\ exit = "OSError" => ops # <<>> /\ ~ops[Len(ops)].ok
     /\ exit = "0" => Len(ops) = 4 * Len(devices) /\ \A k \in DOMAIN ops : ops[k].ok

\* after a failure every file written before holds the text written to it
WrittenFilesKept ==
  LET ops == CwdOps
  IN exit = "OSError" =>
       \A k \in DOMAIN ops :
         ops[k].ok /\ ops[k].op = "write" =>
           /\ ops[k].path \in DOMAIN fsFiles
           /\ fsFiles[ops[k].path] = StepText(k)

\* C8: persistence goes family by family in insertion order, manifest, readme,
\* source module; a failed operation ends the run, no operation is tried
\* again, and the files written before the failure keep what was written.
C8_NoRollbackNoRetry == AttemptedInOrderOnce /\ WrittenFilesKept

\* the first 7 characters of a name, lower-cased
LowerFirstSeven(n) ==
  [i \in 1..(IF Len(n) < 7 THEN Len(n) ELSE 7) |-> LowerChar(n[i])]

\* the directories named on the line printed before the prompt
Announced == Range(SplitOn(", ", stdout[2]))

\* C9: after a confirmed run without failure the files written are the
\* manifest, the readme and the source module of each announced directory and
\* no other, the announced directories being the lower-cased family keys with
\* "/"; an empty input announces nothing and writes nothing.
C9_WrittenIsAnnounced ==
  exit = "0" =>
    /\ stdinRead = 1
    /\ Announced = {LowerFirstSeven(n) \o <<"/">> : n \in Matched}
    /\ DOMAIN fsFiles =
         UNION {{d \o <<"Cargo.toml">>, d \o <<"README.md">>,
                 d \o <<"src", "/", "lib.rs">>} : d \in Announced}
    /\ fsDirs = UNION {{SubSeq(d, 1, Len(d) - 1), d \o <<"src">>} : d \in Announced}
    /\ Matched = {} => stdout[2] = <<>> /\ DOMAIN fsFiles = {} /\ fsDirs = {}

C9_Witness == exit = "0" /\ Cardinality(Announced) >= 2 /\ Len(devices) = 3

\* the device named in the dependency stanza of a readme
ExampleDevice(text) ==
  LET i == CHOOSE k \in DOMAIN text : text[k] = "\"\nfeatures = [\""
      ends == {j \in i..Len(text) : \A l \in (i + 1)..j : text[l] \in NameChars}
      j == CHOOSE k \in ends : \A l \in ends : l <= k
  IN SubSeq(text, i + 1, j)

\* C10: no group of the mapping is empty, and the example device of a rendered
\* readme is the smallest device key of the family.
C10_ExampleIsSmallest ==
  /\ \A i \in DOMAIN devices : Len(devices[i].devs) >= 1
  /\ InLoopBody =>
       LET ex == ExampleDevice(readme)
       IN /\ ex \in Range(devices[fi].devs)
          /\ \A e \in Range(devices[fi].devs) : ~StrLess(e, ex)

\* the example device is not the device discovered first
C10_Witness ==
  /\ InLoopBody
  /\ \E i \in DOMAIN paths :
       /\ FamilyKey(paths[i]) = devices[fi].family
       /\ \A j \in 1..(i - 1) : FamilyKey(paths[j]) # devices[fi].family
       /\ DeviceKey(paths[i]) # ExampleDevice(readme)

====
